---- MODULE Spec2Model ----
(***************************************************************************)
(* Model of extractController (apps/api/src/controllers/v1/extract.ts):    *)
(* one extract request, its resolver tasks (one per input URL), its fetch  *)
(* tasks (one per resolved URL), the shared trace ledger urlTraces and the *)
(* response.  Every await of the controller is a point where another task  *)
(* of the same request may run; each action is the code between two awaits.*)
(*                                                                         *)
(* A URL is a record [page, form]: form "glob" is a URL that contains the  *)
(* "/*" suffix, "slash" is the trailing-slash spelling of the "plain" URL  *)
(* of the same page.  Scores are the scorer's scores times 100.            *)
(***************************************************************************)
EXTENDS Integers, Sequences, FiniteSets, TLC

\* ---------------------------------------------------------------- bounds
MaxUrls == 2
MaxMapped == 1
MaxRaw == 1
MaxFaults == 2
MaxDiscovered == 2

\* ------------------------------------------------------ program constants
MAX_EXTRACT_LIMIT == 100
MAX_RANKING_LIMIT == 10
INITIAL_SCORE_THRESHOLD == 75
FALLBACK_SCORE_THRESHOLD == 50
MIN_REQUIRED_LINKS == 1

\* ------------------------------------------------------------ the inputs
U(p, f) == [page |-> p, form |-> f]

Pages == {1, 2, 3}

\* the pages isUrlBlocked rejects
BlockedPages == {3}

InputUrls == {U(1, "glob"), U(1, "plain"), U(3, "plain")}

\* what the discovery collaborator may return
DiscoverableUrls == {U(1, "plain"), U(3, "plain")}

\* what it may return in the specification of the cascade
CandidateUrls == {U(1, "plain"), U(1, "slash"), U(2, "plain"), U(3, "plain")}

Scores == {20, 60, 80}

\* doc.markdown.length of the document fetched for a URL
DocLength(u) == u.page

\* completions.numTokens
TokenTotals == {0, 5}

BSeq(S, n) == UNION {[1..k -> S] : k \in 0..n}

\* req.body.timeout in milliseconds; 0 stands for a request without one
\* (a missing value and 0 are both falsy at line 268)
NoTimeout == {0}

Requests ==
  [urls : BSeq(InputUrls, MaxUrls) \ {<<>>},
   prompt : BOOLEAN,
   allowExternalLinks : BOOLEAN,
   timeout : NoTimeout]

\* ------------------------------------------------- collaborators on URLs
isUrlBlocked(u) == u.page \in BlockedPages

\* url.includes("/*")
HasGlob(u) == u.form = "glob"

\* url.replace("/*", "")
BaseUrl(u) == IF u.form = "glob" THEN U(u.page, "plain") ELSE u

\* the key removeDuplicateUrls compares URLs by
NormUrl(u) == U(u.page, "plain")

\* the elements of s whose key no earlier element has, in the order of s,
\* keys[i] being the key of s[i]
FirstByKey(s, keys) ==
  LET tagged == [i \in 1..Len(s) |->
                   [value |-> s[i],
                    first |-> \A j \in 1..(i - 1) : keys[j] # keys[i]]]
      IsFirst(x) == x.first
      kept == SelectSeq(tagged, IsFirst)
  IN [i \in 1..Len(kept) |-> kept[i].value]

removeDuplicateUrls(s) == FirstByKey(s, [i \in 1..Len(s) |-> NormUrl(s[i])])

\* ------------------------------------------------------- sequence helpers
Range(s) == {s[i] : i \in 1..Len(s)}

Take(s, n) == IF Len(s) <= n THEN s ELSE SubSeq(s, 1, n)

Drop(s, n) == IF Len(s) <= n THEN <<>> ELSE SubSeq(s, n + 1, Len(s))

RECURSIVE Flat(_)
Flat(ss) == IF ss = <<>> THEN <<>> ELSE Head(ss) \o Flat(Tail(ss))

\* ------------------------------------------------------- the trace ledger
NewTrace(u, used) ==
  [url |-> u, status |-> "mapped", discoveredAt |-> 1, scrapedAt |-> 0,
   completedAt |-> 0, relevanceScore |-> -1, usedInCompletion |-> used,
   warning |-> "none", error |-> "none", rawContentLength |-> -1,
   tokensUsed |-> -1]

\* urlTraces.find(t => t.url === u): the index of the first such trace, 0 if none
FindTrace(traces, u) ==
  IF \E i \in 1..Len(traces) : traces[i].url = u
  THEN CHOOSE i \in 1..Len(traces) :
         traces[i].url = u /\ \A j \in 1..(i - 1) : traces[j].url # u
  ELSE 0

\* traces[n] is the trace urlTraces.find returns for its URL
IsFound(traces, n) == \A j \in 1..(n - 1) : traces[j].url # traces[n].url

\* push a trace for every discovered URL the ledger does not hold yet
TrackDiscovered(traces, urls) ==
  LET Missing(u) == FindTrace(traces, u) = 0
      missing == SelectSeq(urls, Missing)
      new == FirstByKey(missing, missing)
  IN traces \o [i \in 1..Len(new) |-> NewTrace(new[i], "false")]

\* --------------------------------------------------- discovery and merge
\* MergeMapped with the slip of leaving out slice(0, MAX_EXTRACT_LIMIT)
MergeMappedUncapped(base, mapResults, rawLinks) ==
  LET uniqueUrls == removeDuplicateUrls(mapResults \o rawLinks)
      IsNew(u) == u \notin Range(mapResults)
      merged == mapResults \o SelectSeq(uniqueUrls, IsNew)
  IN IF Len(merged) = 0 THEN <<base>> ELSE merged

\* the merge of mapResults.mapResults and mapResults.links into mappedLinks
MergeMapped(base, mapResults, rawLinks) ==
  LET uniqueUrls == removeDuplicateUrls(mapResults \o rawLinks)
      IsNew(u) == u \notin Range(mapResults)
      merged == mapResults \o SelectSeq(uniqueUrls, IsNew)
      withFallback == IF Len(merged) = 0 THEN <<base>> ELSE merged
  IN Take(withFallback, MAX_EXTRACT_LIMIT)

TrackMapped(traces, mapResults, rawLinks) ==
  TrackDiscovered(traces, removeDuplicateUrls(mapResults \o rawLinks))

\* ---------------------------------------------------- relevance filtering
\* filterAndProcessLinks with the slip of accepting the threshold itself
filterAtOrAboveThreshold(mappedLinks, linksAndScores, threshold) ==
  LET Above(x) == x.score >= threshold
      above == SelectSeq(linksAndScores, Above)
      found == [i \in 1..Len(above) |-> above[i].link]
      Keep(u) == u \in Range(mappedLinks) /\ ~isUrlBlocked(u)
  IN SelectSeq(found, Keep)

\* filterAndProcessLinks with the slip of not consulting the blocklist
filterWithoutBlocklist(mappedLinks, linksAndScores, threshold) ==
  LET Above(x) == x.score > threshold
      above == SelectSeq(linksAndScores, Above)
      found == [i \in 1..Len(above) |-> above[i].link]
      Keep(u) == u \in Range(mappedLinks)
  IN SelectSeq(found, Keep)

filterAndProcessLinks(mappedLinks, linksAndScores, threshold) ==
  LET Above(x) == x.score > threshold
      above == SelectSeq(linksAndScores, Above)
      found == [i \in 1..Len(above) |-> above[i].link]
      Keep(u) == u \in Range(mappedLinks) /\ ~isUrlBlocked(u)
  IN SelectSeq(found, Keep)

\* Array.prototype.sort((a, b) => b.score - a.score): stable, descending
SortByScore(s) ==
  LET Before(i) == {j \in 1..Len(s) :
                      \/ s[j].score > s[i].score
                      \/ s[j].score = s[i].score /\ j < i}
  IN [p \in 1..Len(s) |->
        s[CHOOSE i \in 1..Len(s) : Cardinality(Before(i)) = p - 1]]

\* TopLinks with the slip of keeping the top link even when it is blocked
TopLinksKeepBlocked(mappedLinks, sorted) ==
  LET top == Take(sorted, MIN_REQUIRED_LINKS)
      found == [i \in 1..Len(top) |-> top[i].link]
      Keep(u) == u \in Range(mappedLinks)
  IN SelectSeq(found, Keep)

\* the top MIN_REQUIRED_LINKS of the sorted scores, blocked ones dropped
TopLinks(mappedLinks, sorted) ==
  LET top == Take(sorted, MIN_REQUIRED_LINKS)
      found == [i \in 1..Len(top) |-> top[i].link]
      Keep(u) == u \in Range(mappedLinks) /\ ~isUrlBlocked(u)
  IN SelectSeq(found, Keep)

\* the threshold cascade: the accepted links, and linksAndScores as the
\* cascade leaves it (sort() reorders it in place when the top-N step runs)
Cascade(mappedLinks, linksAndScores) ==
  LET first == filterAndProcessLinks(mappedLinks, linksAndScores,
                                     INITIAL_SCORE_THRESHOLD)
      second == filterAndProcessLinks(mappedLinks, linksAndScores,
                                      FALLBACK_SCORE_THRESHOLD)
      sorted == SortByScore(linksAndScores)
  IN IF Len(first) >= MIN_REQUIRED_LINKS
     THEN [filteredLinks |-> first, linksAndScores |-> linksAndScores]
     ELSE IF Len(second) # 0
     THEN [filteredLinks |-> second, linksAndScores |-> linksAndScores]
     ELSE [filteredLinks |-> TopLinks(mappedLinks, sorted),
           linksAndScores |-> sorted]

\* linksAndScores.forEach: record the score, mark the filtered-out URLs;
\* a trace takes the score of the last entry for its URL
MarkScores(traces, scores, filteredLinks) ==
  [n \in 1..Len(traces) |->
     LET hits == {k \in 1..Len(scores) : scores[k].link = traces[n].url}
         last == CHOOSE k \in hits : \A j \in hits : j <= k
         scored == [traces[n] EXCEPT !.relevanceScore = scores[last].score]
     IN IF hits = {} \/ ~IsFound(traces, n) THEN traces[n]
        ELSE IF traces[n].url \in Range(filteredLinks) THEN scored
        ELSE [scored EXCEPT !.warning = "below threshold",
                            !.usedInCompletion = "false"]]

\* mappedLinks.forEach: mark the URLs that will be used in completion
MarkUsed(traces, urls) ==
  [n \in 1..Len(traces) |->
     IF traces[n].url \in Range(urls) /\ IsFound(traces, n)
     THEN [traces[n] EXCEPT !.usedInCompletion = "true"]
     ELSE traces[n]]

\* filteredLinks.slice(MAX_RANKING_LIMIT).forEach: dropped by the ranking limit
MarkDropped(traces, urls) ==
  [n \in 1..Len(traces) |->
     IF traces[n].url \in Range(urls) /\ IsFound(traces, n)
     THEN [traces[n] EXCEPT !.warning = "ranking limit",
                            !.usedInCompletion = "false"]
     ELSE traces[n]]

\* the trace updates of one resolver task after ranking
MarkRanked(traces, scores, filteredLinks) ==
  MarkDropped(
    MarkUsed(MarkScores(traces, scores, filteredLinks),
             Take(filteredLinks, MAX_RANKING_LIMIT)),
    Drop(filteredLinks, MAX_RANKING_LIMIT))

\* ------------------------------------------------------------- the state
VARIABLES
  req,          \* req.body after extractRequestSchema.parse
  urlTraces,    \* the trace ledger
  rtask,        \* the resolver tasks (urlPromises), one per input URL
  phase,        \* where extractController itself stands
  links,        \* the resolved URL list
  ftask,        \* the fetch tasks (scrapePromises), one per entry of links
  queue,        \* the job ids the scrape queue holds
  submitted,    \* the job ids addScrapeJob has accepted
  docs,         \* the documents handed to generateOpenAICompletions
  response,     \* what res.status(..).json(..) sent
  billed,       \* the credits passed to billTeam
  faults,       \* how many collaborator calls have failed so far
  discovered,   \* how many URLs the discovery collaborator has returned so far
  failure,      \* what made extractController's own promise reject, if it did
  extractCalls, \* how many times generateOpenAICompletions was called
  numTokens     \* completions.numTokens, -1 until the extraction resolves

vars == <<req, urlTraces, rtask, phase, links, ftask, queue, submitted, docs,
          response, billed, faults, discovered, failure, extractCalls,
          numTokens>>

NoResponse == [status |-> 0, success |-> FALSE, error |-> "none", urlTrace |-> <<>>]

NewTask ==
  [pc |-> "new", search |-> "none", mappedLinks |-> <<>>, result |-> <<>>,
   error |-> "none", linksAndScores |-> <<>>, filteredLinks |-> <<>>]

Init ==
  /\ req \in Requests
  /\ urlTraces = <<>>
  /\ rtask = [i \in 1..Len(req.urls) |-> NewTask]
  /\ phase = "start"
  /\ links = <<>>
  /\ ftask = <<>>
  /\ queue = {}
  /\ submitted = {}
  /\ docs = <<>>
  /\ response = NoResponse
  /\ billed = 0
  /\ faults = 0
  /\ discovered = 0
  /\ failure = "none"
  /\ extractCalls = 0
  /\ numTokens = -1

\* the branch test of line 73
IsPattern(u) == HasGlob(u) \/ req.allowExternalLinks

\* the trace a resolver task pushes, as its synchronous prefix leaves it
InputTrace(u) ==
  IF IsPattern(u) THEN NewTrace(u, "unset")
  ELSE IF ~isUrlBlocked(u) THEN NewTrace(u, "true")
  ELSE [NewTrace(u, "false") EXCEPT !.status = "error",
                                  !.error = "URL is blocked"]

\* the resolver task as its synchronous prefix leaves it
InputTask(u) ==
  IF IsPattern(u)
  THEN IF req.prompt THEN [NewTask EXCEPT !.pc = "rephrase"]
       ELSE [NewTask EXCEPT !.pc = "map"]
  ELSE IF ~isUrlBlocked(u) THEN [NewTask EXCEPT !.pc = "done", !.result = <<u>>]
  ELSE [NewTask EXCEPT !.pc = "done", !.error = "URL is blocked"]

\* req.body.urls.map(async ...): every task runs up to its first await
StartResolvers ==
  /\ phase = "start"
  /\ phase' = "resolving"
  /\ urlTraces' = [i \in 1..Len(req.urls) |-> InputTrace(req.urls[i])]
  /\ rtask' = [i \in 1..Len(req.urls) |-> InputTask(req.urls[i])]
  /\ UNCHANGED <<req, links, ftask, queue, submitted, docs, response, billed,
                 faults, discovered, failure, extractCalls, numTokens>>

\* the catch of line 226: the task's own trace takes the error
ResolverCatch(traces, i, message) ==
  [traces EXCEPT ![i].status = "error", ![i].error = message,
                 ![i].usedInCompletion = "false"]

\* generateBasicCompletion resolves, with a rephrased prompt or with null
RephraseReturns(i) ==
  /\ rtask[i].pc = "rephrase"
  /\ \E rephrased \in {"rephrased", "original"} :
       rtask' = [rtask EXCEPT ![i].pc = "map", ![i].search = rephrased]
  /\ UNCHANGED <<req, urlTraces, phase, links, ftask, queue, submitted, docs,
                 response, billed, faults, discovered, failure, extractCalls, numTokens>>

\* generateBasicCompletion rejects: the await is outside the try, the task
\* rejects, Promise.all(urlPromises) rejects and extractController throws
RephraseThrows(i) ==
  /\ rtask[i].pc = "rephrase"
  /\ faults < MaxFaults
  /\ faults' = faults + 1
  /\ rtask' = [rtask EXCEPT ![i].pc = "rejected",
                            ![i].error = "rephrase failed"]
  /\ phase' = IF phase = "resolving" THEN "thrown" ELSE phase
  /\ failure' = IF phase = "resolving" THEN "rephrase failed" ELSE failure
  /\ UNCHANGED <<req, urlTraces, links, ftask, queue, submitted, docs,
                 response, billed, discovered, extractCalls, numTokens>>

\* MapReturnsWith with the slip of ranking whether or not there is a prompt
MapReturnsAlwaysRank(i, M, R, budget) ==
  /\ rtask[i].pc = "map"
  /\ \E mapResults \in M, rawLinks \in R :
       LET mapped == MergeMapped(BaseUrl(req.urls[i]), mapResults, rawLinks)
       IN /\ discovered + Len(mapResults) + Len(rawLinks) <= budget
          /\ discovered' = discovered + Len(mapResults) + Len(rawLinks)
          /\ urlTraces' = TrackMapped(urlTraces, mapResults, rawLinks)
          /\ rtask' = [rtask EXCEPT ![i].pc = "rank",
                                    ![i].mappedLinks = mapped]
  /\ UNCHANGED <<req, phase, links, ftask, queue, submitted, docs, response,
                 billed, faults, failure, extractCalls, numTokens>>

\* getMapResults resolves with mapResults from M and links from R, the
\* request having discovered at most budget URLs in all
MapReturnsWith(i, M, R, budget) ==
  /\ rtask[i].pc = "map"
  /\ \E mapResults \in M, rawLinks \in R :
       LET mapped == MergeMapped(BaseUrl(req.urls[i]), mapResults, rawLinks)
       IN /\ discovered + Len(mapResults) + Len(rawLinks) <= budget
          /\ discovered' = discovered + Len(mapResults) + Len(rawLinks)
          /\ urlTraces' = TrackMapped(urlTraces, mapResults, rawLinks)
          /\ rtask' = IF req.prompt
                      THEN [rtask EXCEPT ![i].pc = "rank",
                                         ![i].mappedLinks = mapped]
                      ELSE [rtask EXCEPT ![i].pc = "done",
                                         ![i].result = mapped]
  /\ UNCHANGED <<req, phase, links, ftask, queue, submitted, docs, response,
                 billed, faults, failure, extractCalls, numTokens>>

MapReturns(i) ==
  MapReturnsWith(i, BSeq(DiscoverableUrls, MaxMapped),
                 BSeq(DiscoverableUrls, MaxRaw), MaxDiscovered)

\* getMapResults rejects
MapThrows(i) ==
  /\ rtask[i].pc = "map"
  /\ faults < MaxFaults
  /\ faults' = faults + 1
  /\ urlTraces' = ResolverCatch(urlTraces, i, "discovery failed")
  /\ rtask' = [rtask EXCEPT ![i].pc = "done", ![i].result = <<>>,
                            ![i].error = "discovery failed"]
  /\ UNCHANGED <<req, phase, links, ftask, queue, submitted, docs, response,
                 billed, discovered, failure, extractCalls, numTokens>>

\* performRanking resolves with one score per candidate, the scores being
\* one of the sequences given
RankReturnsFrom(i, scoreLists) ==
  /\ rtask[i].pc = "rank"
  /\ \E scores \in scoreLists :
       LET mapped == rtask[i].mappedLinks
           linksAndScores == [k \in 1..Len(mapped) |->
                                [link |-> mapped[k], score |-> scores[k]]]
           c == Cascade(mapped, linksAndScores)
       IN /\ urlTraces' = MarkRanked(urlTraces, c.linksAndScores,
                                     c.filteredLinks)
          /\ rtask' = [rtask EXCEPT
                         ![i].pc = "done",
                         ![i].linksAndScores = c.linksAndScores,
                         ![i].filteredLinks = c.filteredLinks,
                         ![i].result = Take(c.filteredLinks, MAX_RANKING_LIMIT)]
  /\ UNCHANGED <<req, phase, links, ftask, queue, submitted, docs, response,
                 billed, faults, discovered, failure, extractCalls, numTokens>>

\* performRanking resolves with one score per candidate, drawn from S
RankReturnsWith(i, S) ==
  RankReturnsFrom(i, [1..Len(rtask[i].mappedLinks) -> S])

RankReturns(i) == RankReturnsWith(i, Scores)

\* performRanking rejects
RankThrows(i) ==
  /\ rtask[i].pc = "rank"
  /\ faults < MaxFaults
  /\ faults' = faults + 1
  /\ urlTraces' = ResolverCatch(urlTraces, i, "ranking failed")
  /\ rtask' = [rtask EXCEPT ![i].pc = "done", ![i].result = <<>>,
                            ![i].error = "ranking failed"]
  /\ UNCHANGED <<req, phase, links, ftask, queue, submitted, docs, response,
                 billed, discovered, failure, extractCalls, numTokens>>

\* ------------------------------------------- IEEE 754 double arithmetic
\* JavaScript numbers are binary64 values.  A finite positive one is kept as
\* its 53 significand bits, most significant first, and the exponent of the
\* last bit: the value is BitsToNat(bits) * 2^exp.  The operands the
\* controller divides and multiplies are non-negative integers below 2^22,
\* so signs, subnormals and overflow do not occur.  Bits are produced eight
\* at a time, which keeps every intermediate value inside 32 bits.
SignificandBits == 53

FZero == [kind |-> "zero", bits |-> <<>>, exp |-> 0]

FNaN == [kind |-> "nan", bits |-> <<>>, exp |-> 0]

FInfinity == [kind |-> "inf", bits |-> <<>>, exp |-> 0]

\* the w lowest bits of n, most significant first
FixedBits(n, w) == [j \in 1..w |-> (n \div 2^(w - j)) % 2]

BitLength(n) == IF n = 0 THEN 0 ELSE CHOOSE w \in 1..30 : 2^(w - 1) <= n /\ n < 2^w

NatToBits(n) == FixedBits(n, BitLength(n))

RECURSIVE BitsToNat(_)
BitsToNat(bits) ==
  IF Len(bits) = 0 THEN 0
  ELSE IF Len(bits) = 1 THEN bits[1]
  ELSE LET h == Len(bits) \div 2
       IN BitsToNat(SubSeq(bits, 1, h)) * 2^(Len(bits) - h)
          + BitsToNat(SubSeq(bits, h + 1, Len(bits)))

\* bits + 1, one bit longer when every bit was 1
Increment(bits) ==
  IF \A j \in 1..Len(bits) : bits[j] = 1
  THEN <<1>> \o [j \in 1..Len(bits) |-> 0]
  ELSE LET last == CHOOSE j \in 1..Len(bits) :
                     /\ bits[j] = 0
                     /\ \A i \in (j + 1)..Len(bits) : bits[i] = 1
       IN [j \in 1..Len(bits) |->
             IF j < last THEN bits[j] ELSE IF j = last THEN 1 ELSE 0]

\* round to nearest, ties to even: kept are the first 53 bits of a result,
\* guard the bit after them, sticky whether anything non-zero follows;
\* exp is the exponent of the last kept bit
RoundNearestEven(kept, guard, sticky, exp) ==
  IF guard = 1 /\ (sticky \/ kept[Len(kept)] = 1)
  THEN LET up == Increment(kept)
       IN IF Len(up) > SignificandBits
          THEN [kind |-> "num", bits |-> SubSeq(up, 1, SignificandBits),
                exp |-> exp + 1]
          ELSE [kind |-> "num", bits |-> up, exp |-> exp]
  ELSE [kind |-> "num", bits |-> kept, exp |-> exp]

\* the next n bytes of bits of r / b for r < b, and the remainder left
RECURSIVE QuotientBits(_, _, _)
QuotientBits(r, b, n) ==
  IF n = 0 THEN [bits |-> <<>>, rem |-> r]
  ELSE LET scaled == r * 2^8
           rest == QuotientBits(scaled % b, b, n - 1)
       IN [bits |-> FixedBits(scaled \div b, 8) \o rest.bits,
           rem |-> rest.rem]

\* a / b with b <= a < 2b, scaled by 2^exp
DivideNormal(a, b, exp) ==
  LET q == QuotientBits(a - b, b, 7)
  IN RoundNearestEven(
       <<1>> \o SubSeq(q.bits, 1, SignificandBits - 1),
       q.bits[SignificandBits],
       q.rem > 0 \/ \E j \in (SignificandBits + 1)..Len(q.bits) : q.bits[j] = 1,
       exp - (SignificandBits - 1))

\* the JavaScript a / b of two non-negative integers
FDivide(a, b) ==
  IF b = 0 THEN (IF a = 0 THEN FNaN ELSE FInfinity)
  ELSE IF a = 0 THEN FZero
  ELSE IF a < 2 * b
  THEN LET s == CHOOSE s \in 0..30 : b <= a * 2^s /\ a * 2^s < 2 * b
       IN DivideNormal(a * 2^s, b, 0 - s)
  ELSE LET s == CHOOSE s \in 1..30 : b * 2^s <= a /\ a < 2 * b * 2^s
       IN DivideNormal(a, b * 2^s, s)

\* bits * n + carry as a bit sequence, a chunk of bits at a time from the end
RECURSIVE TimesBits(_, _, _)
TimesBits(bits, n, carry) ==
  IF Len(bits) = 0 THEN NatToBits(carry)
  ELSE LET w == IF Len(bits) < 8 THEN Len(bits) ELSE 8
           v == BitsToNat(SubSeq(bits, Len(bits) - w + 1, Len(bits))) * n
                + carry
       IN TimesBits(SubSeq(bits, 1, Len(bits) - w), n, v \div 2^w)
          \o FixedBits(v % 2^w, w)

\* the JavaScript x * n of a double x and a non-negative integer n
FTimes(x, n) ==
  IF x.kind = "nan" THEN FNaN
  ELSE IF x.kind = "inf" THEN (IF n = 0 THEN FNaN ELSE FInfinity)
  ELSE IF x.kind = "zero" \/ n = 0 THEN FZero
  ELSE LET p == TimesBits(x.bits, n, 0)
           extra == Len(p) - SignificandBits
       IN IF extra = 0 THEN [kind |-> "num", bits |-> p, exp |-> x.exp]
          ELSE RoundNearestEven(
                 SubSeq(p, 1, SignificandBits), p[SignificandBits + 1],
                 \E j \in (SignificandBits + 2)..Len(p) : p[j] = 1,
                 x.exp + extra)

\* the value Math.floor gives for NaN
NaN == -2

\* Math.floor(x) for a double x below 2^30
MathFloor(x) ==
  IF x.kind = "nan" THEN NaN
  ELSE IF x.kind = "zero" THEN 0
  ELSE IF x.exp <= 0 - SignificandBits THEN 0
  ELSE BitsToNat(SubSeq(x.bits, 1, SignificandBits + x.exp))

\* the double the literal 0.7 denotes
Point7 == FDivide(7, 10)

\* EffectiveTimeout with the slip of 30000 as the request default too
EffectiveTimeoutOneDefault(timeout) ==
  LET scaled == MathFloor(FTimes(Point7, IF timeout = 0 THEN 30000 ELSE timeout))
  IN IF scaled = 0 THEN 30000 ELSE scaled

\* line 268: Math.floor((req.body.timeout || 40000) * 0.7) || 30000, with a
\* missing req.body.timeout kept as 0
EffectiveTimeout(timeout) ==
  LET scaled == MathFloor(FTimes(Point7, IF timeout = 0 THEN 40000 ELSE timeout))
  IN IF scaled = 0 THEN 30000 ELSE scaled

\* ------------------------------------------------------- the fetch stage
\* links.map(async ...): every fetch task runs up to its first await, which
\* marks the trace it finds for its URL as scraped
RECURSIVE MarkScraped(_, _)
MarkScraped(traces, urls) ==
  IF urls = <<>> THEN traces
  ELSE LET i == FindTrace(traces, Head(urls))
       IN MarkScraped(IF i = 0 THEN traces
                      ELSE [traces EXCEPT ![i].status = "scraped",
                                          ![i].scrapedAt = @ + 1],
                      Tail(urls))

\* what a fetch task that has not rejected holds as its rejection
NoRejection == [status |-> 0, error |-> "none", message |-> "none"]

NewFetch(traces, u) ==
  [pc |-> "priority", url |-> u, trace |-> FindTrace(traces, u), length |-> 0,
   error |-> "none", timeout |-> EffectiveTimeout(req.timeout),
   rejection |-> NoRejection]

NoLinksResponse(traces) ==
  [status |-> 400, success |-> FALSE, error |-> "No valid URLs found to scrape",
   urlTrace |-> traces]

\* ResolversJoin with the slip of leaving out the links.length === 0 test
ResolversJoinNoGuard ==
  /\ phase = "resolving"
  /\ \A i \in 1..Len(rtask) : rtask[i].pc = "done"
  /\ LET flattenedUrls == Flat([i \in 1..Len(rtask) |-> rtask[i].result])
     IN /\ links' = flattenedUrls
        /\ urlTraces' = MarkScraped(urlTraces, flattenedUrls)
        /\ ftask' = [k \in 1..Len(flattenedUrls) |->
                       NewFetch(urlTraces, flattenedUrls[k])]
        /\ phase' = "fetching"
        /\ UNCHANGED response
  /\ UNCHANGED <<req, rtask, queue, submitted, docs, billed, faults, discovered,
                 failure, extractCalls, numTokens>>

\* the continuation of await Promise.all(urlPromises), lines 246-318
ResolversJoin ==
  /\ phase = "resolving"
  /\ \A i \in 1..Len(rtask) : rtask[i].pc = "done"
  /\ LET flattenedUrls == Flat([i \in 1..Len(rtask) |-> rtask[i].result])
     IN /\ links' = flattenedUrls
        /\ IF Len(flattenedUrls) = 0
           THEN /\ response' = NoLinksResponse(urlTraces)
                /\ phase' = "responded"
                /\ UNCHANGED <<urlTraces, ftask>>
           ELSE /\ urlTraces' = MarkScraped(urlTraces, flattenedUrls)
                /\ ftask' = [k \in 1..Len(flattenedUrls) |->
                               NewFetch(urlTraces, flattenedUrls[k])]
                /\ phase' = "fetching"
                /\ UNCHANGED response
  /\ UNCHANGED <<req, rtask, queue, submitted, docs, billed, faults, discovered, failure, extractCalls, numTokens>>

\* the catch of line 310: the trace found for the URL takes the error
FetchCatch(traces, k, message) ==
  IF ftask[k].trace = 0 THEN traces
  ELSE [traces EXCEPT ![ftask[k].trace].status = "error",
                      ![ftask[k].trace].error = message]

\* getJobPriority resolves: addScrapeJob is called
PriorityReturns(k) ==
  /\ ftask[k].pc = "priority"
  /\ ftask' = [ftask EXCEPT ![k].pc = "add"]
  /\ UNCHANGED <<req, urlTraces, rtask, phase, links, queue, submitted, docs,
                 response, billed, faults, discovered, failure, extractCalls, numTokens>>

\* the response of the catch of line 323 for a rejection e
BatchErrorResponse(traces, e) ==
  [status |-> e.status, success |-> FALSE, error |-> e.error,
   urlTrace |-> traces]

\* what getJobPriority can reject with: an upstream error object with a
\* status, an error text and a message, one with a status and a message
\* only, and a plain Error, which has a message and neither status nor error
PriorityErrors ==
  {[status |-> 503, error |-> "queue unavailable",
    message |-> "queue unavailable"],
   [status |-> 503, error |-> "undefined", message |-> "queue unavailable"],
   [status |-> 0, error |-> "undefined", message |-> "priority failed"]}

\* getJobPriority rejects: the await is outside the try, the fetch task
\* rejects and so does Promise.all(scrapePromises); an error without a
\* numeric status makes res.status(undefined).json(..) throw
PriorityThrows(k) ==
  /\ ftask[k].pc = "priority"
  /\ faults < MaxFaults
  /\ faults' = faults + 1
  /\ \E e \in PriorityErrors :
       /\ ftask' = [ftask EXCEPT ![k].pc = "rejected", ![k].rejection = e]
       /\ IF phase # "fetching" THEN UNCHANGED <<phase, response, failure>>
          ELSE IF e.status = 0
          THEN /\ phase' = "thrown"
               /\ failure' = "invalid status code"
               /\ UNCHANGED response
          ELSE /\ phase' = "responded"
               /\ response' = BatchErrorResponse(urlTraces, e)
               /\ UNCHANGED failure
  /\ UNCHANGED <<req, urlTraces, rtask, links, queue, submitted, docs, billed,
                 discovered, extractCalls, numTokens>>

\* addScrapeJob resolves: the job is in the queue, waitForJob is called
AddReturns(k) ==
  /\ ftask[k].pc = "add"
  /\ ftask' = [ftask EXCEPT ![k].pc = "wait"]
  /\ queue' = queue \cup {k}
  /\ submitted' = submitted \cup {k}
  /\ UNCHANGED <<req, urlTraces, rtask, phase, links, docs, response, billed,
                 faults, discovered, failure, extractCalls, numTokens>>

\* addScrapeJob rejects
AddThrows(k) ==
  /\ ftask[k].pc = "add"
  /\ faults < MaxFaults
  /\ faults' = faults + 1
  /\ ftask' = [ftask EXCEPT ![k].pc = "null", ![k].error = "add failed"]
  /\ urlTraces' = FetchCatch(urlTraces, k, "add failed")
  /\ UNCHANGED <<req, rtask, phase, links, queue, submitted, docs, response,
                 billed, discovered, failure, extractCalls, numTokens>>

\* waitForJob resolves with the document: queue.remove is called
WaitReturns(k) ==
  /\ ftask[k].pc = "wait"
  /\ ftask' = [ftask EXCEPT ![k].pc = "remove",
                            ![k].length = DocLength(ftask[k].url)]
  /\ UNCHANGED <<req, urlTraces, rtask, phase, links, queue, submitted, docs,
                 response, billed, faults, discovered, failure, extractCalls, numTokens>>

\* waitForJob rejects or times out
WaitThrows(k) ==
  /\ ftask[k].pc = "wait"
  /\ faults < MaxFaults
  /\ faults' = faults + 1
  /\ ftask' = [ftask EXCEPT ![k].pc = "null", ![k].error = "job timed out"]
  /\ urlTraces' = FetchCatch(urlTraces, k, "job timed out")
  /\ UNCHANGED <<req, rtask, phase, links, queue, submitted, docs, response,
                 billed, discovered, failure, extractCalls, numTokens>>

\* lines 297-304: the trace takes completedAt and contentStats
FetchDone(traces, k) ==
  IF ftask[k].trace = 0 THEN traces
  ELSE [traces EXCEPT ![ftask[k].trace].completedAt = @ + 1,
                      ![ftask[k].trace].rawContentLength = ftask[k].length,
                      ![ftask[k].trace].tokensUsed = 0]

\* getScrapeQueue().remove resolves: the task returns the document
RemoveReturns(k) ==
  /\ ftask[k].pc = "remove"
  /\ queue' = queue \ {k}
  /\ ftask' = [ftask EXCEPT ![k].pc = "doc"]
  /\ urlTraces' = FetchDone(urlTraces, k)
  /\ UNCHANGED <<req, rtask, phase, links, submitted, docs, response, billed,
                 faults, discovered, failure, extractCalls, numTokens>>

\* getScrapeQueue().remove rejects: the document is dropped
RemoveThrows(k) ==
  /\ ftask[k].pc = "remove"
  /\ faults < MaxFaults
  /\ faults' = faults + 1
  /\ ftask' = [ftask EXCEPT ![k].pc = "null", ![k].error = "remove failed"]
  /\ urlTraces' = FetchCatch(urlTraces, k, "remove failed")
  /\ UNCHANGED <<req, rtask, phase, links, queue, submitted, docs, response,
                 billed, discovered, failure, extractCalls, numTokens>>

\* ------------------------------------------------- extraction and response
\* results.filter(doc => doc !== null), in the order of links
FetchedDocs ==
  LET IsDoc(t) == t.pc = "doc"
      fetched == SelectSeq(ftask, IsDoc)
  IN [i \in 1..Len(fetched) |->
        [sourceURL |-> fetched[i].url, length |-> fetched[i].length]]

\* the continuation of await Promise.all(scrapePromises), lines 321-345
FetchJoin ==
  /\ phase = "fetching"
  /\ \A k \in 1..Len(ftask) : ftask[k].pc \in {"doc", "null"}
  /\ docs' = FetchedDocs
  /\ extractCalls' = extractCalls + 1
  /\ phase' = "extracting"
  /\ UNCHANGED <<req, urlTraces, rtask, links, ftask, queue, submitted,
                 response, billed, faults, discovered, failure, numTokens>>

RECURSIVE SumLengths(_)
SumLengths(ds) == IF ds = <<>> THEN 0 ELSE Head(ds).length + SumLengths(Tail(ds))

\* lines 348-361: the token total spread over the documents' traces
RECURSIVE Attribute(_, _, _, _)
Attribute(traces, ds, totalLength, tokens) ==
  IF ds = <<>> THEN traces
  ELSE LET i == FindTrace(traces, Head(ds).sourceURL)
           share == MathFloor(FTimes(FDivide(Head(ds).length, totalLength),
                                     tokens))
       IN Attribute(
            IF i # 0 /\ traces[i].rawContentLength # -1
            THEN [traces EXCEPT ![i].tokensUsed = share]
            ELSE traces,
            Tail(ds), totalLength, tokens)

AttributeTokens(traces, ds, tokens) ==
  IF tokens = 0 THEN traces
  ELSE Attribute(traces, ds, SumLengths(ds), tokens)

\* generateOpenAICompletions resolves: tokens attributed, team billed,
\* response sent
ExtractReturnsWith(totals) ==
  /\ phase = "extracting"
  /\ numTokens' \in totals
  /\ urlTraces' = AttributeTokens(urlTraces, docs, numTokens')
  /\ response' = [status |-> 200, success |-> TRUE, error |-> "none",
                  urlTrace |-> urlTraces']
  /\ billed' = Len(links) * 5
  /\ phase' = "responded"
  /\ UNCHANGED <<req, rtask, links, ftask, queue, submitted, docs, faults,
                 discovered, failure, extractCalls>>

ExtractReturns == ExtractReturnsWith(TokenTotals)

\* generateOpenAICompletions rejects: extractController throws
ExtractThrows ==
  /\ phase = "extracting"
  /\ faults < MaxFaults
  /\ faults' = faults + 1
  /\ phase' = "thrown"
  /\ failure' = "extraction failed"
  /\ UNCHANGED <<req, urlTraces, rtask, links, ftask, queue, submitted, docs,
                 response, billed, discovered, extractCalls, numTokens>>

Next ==
  \/ StartResolvers
  \/ \E i \in 1..Len(rtask) : RephraseReturns(i)
  \/ \E i \in 1..Len(rtask) : RephraseThrows(i)
  \/ \E i \in 1..Len(rtask) : MapReturns(i)
  \/ \E i \in 1..Len(rtask) : MapThrows(i)
  \/ \E i \in 1..Len(rtask) : RankReturns(i)
  \/ \E i \in 1..Len(rtask) : RankThrows(i)
  \/ ResolversJoin
  \/ \E k \in 1..Len(ftask) : PriorityReturns(k)
  \/ \E k \in 1..Len(ftask) : PriorityThrows(k)
  \/ \E k \in 1..Len(ftask) : AddReturns(k)
  \/ \E k \in 1..Len(ftask) : AddThrows(k)
  \/ \E k \in 1..Len(ftask) : WaitReturns(k)
  \/ \E k \in 1..Len(ftask) : WaitThrows(k)
  \/ \E k \in 1..Len(ftask) : RemoveReturns(k)
  \/ \E k \in 1..Len(ftask) : RemoveThrows(k)
  \/ FetchJoin
  \/ ExtractReturns
  \/ ExtractThrows

Spec == Init /\ [][Next]_vars

\* ------------------------------------- the cascade on larger candidate lists
\* A resolver task of a one-URL request with a prompt, at the point where it
\* awaits performRanking, for every discovery result of up to MaxCandidates
\* candidates; the scores include the two thresholds themselves.
MaxCandidates == 3

CascadeScores == {20, 50, 60, 75, 80}

InitCascade ==
  /\ req \in [urls : {<<U(1, "glob")>>}, prompt : {TRUE},
              allowExternalLinks : BOOLEAN, timeout : NoTimeout]
  /\ \E mapResults \in BSeq(CandidateUrls, MaxCandidates),
        rawLinks \in BSeq(CandidateUrls, MaxRaw) :
       /\ Len(mapResults) + Len(rawLinks) <= MaxCandidates
       /\ urlTraces = TrackMapped(<<InputTrace(req.urls[1])>>, mapResults,
                                  rawLinks)
       /\ rtask = <<[NewTask EXCEPT
                       !.pc = "rank", !.search = "rephrased",
                       !.mappedLinks = MergeMapped(BaseUrl(req.urls[1]),
                                                   mapResults, rawLinks)]>>
       /\ discovered = Len(mapResults) + Len(rawLinks)
  /\ phase = "resolving"
  /\ links = <<>>
  /\ ftask = <<>>
  /\ queue = {}
  /\ submitted = {}
  /\ docs = <<>>
  /\ response = NoResponse
  /\ billed = 0
  /\ faults = 0
  /\ failure = "none"
  /\ extractCalls = 0
  /\ numTokens = -1

RankCascade == RankReturnsWith(1, CascadeScores)

NextCascade == RankCascade

SpecCascade == InitCascade /\ [][NextCascade]_vars

\* ------------------------------------------------ the caps on long lists
\* A resolver task of a one-URL request at the point where it awaits
\* getMapResults; discovery returns the first n of a list of distinct URLs
\* for the counts n of DiscoveryCounts, and the scorer gives 0.8 to the
\* first m candidates and 0.2 to the rest for the counts m of HighCounts.
DiscoveryCounts == {0, 1, 5, 9, 10, 11, 12, 50, 99, 100, 101, 102, 150, 250}

HighCounts == {0, 1, 9, 10, 11, 12, 99, 100}

DiscoveredList(n) == [k \in 1..n |-> U(k, "plain")]

InitCaps ==
  /\ req \in [urls : {<<U(1, "glob")>>}, prompt : BOOLEAN,
              allowExternalLinks : BOOLEAN, timeout : NoTimeout]
  /\ urlTraces = <<InputTrace(req.urls[1])>>
  /\ rtask = <<[NewTask EXCEPT !.pc = "map",
                               !.search = IF req.prompt THEN "rephrased"
                                          ELSE "none"]>>
  /\ phase = "resolving"
  /\ links = <<>>
  /\ ftask = <<>>
  /\ queue = {}
  /\ submitted = {}
  /\ docs = <<>>
  /\ response = NoResponse
  /\ billed = 0
  /\ faults = 0
  /\ discovered = 0
  /\ failure = "none"
  /\ extractCalls = 0
  /\ numTokens = -1

MapLong ==
  MapReturnsWith(1, {DiscoveredList(n) : n \in DiscoveryCounts}, {<<>>}, 250)

RankLong ==
  RankReturnsFrom(1, {[k \in 1..Len(rtask[1].mappedLinks) |->
                         IF k <= m THEN 80 ELSE 20] : m \in HighCounts})

NextCaps == MapLong \/ RankLong

SpecCaps == InitCaps /\ [][NextCaps]_vars

\* ------------------------------------------------ the timeout of a fetch
\* The request for one direct URL with every timeout of RequestTimeouts, its
\* resolver task done, up to the point where waitForJob has resolved.
RequestTimeouts == (0..200) \cup {1000, 28000, 30000, 40000, 42858, 60000}

InitTimeout ==
  /\ req \in [urls : {<<U(1, "plain")>>}, prompt : {FALSE},
              allowExternalLinks : {FALSE}, timeout : RequestTimeouts]
  /\ urlTraces = <<InputTrace(req.urls[1])>>
  /\ rtask = <<InputTask(req.urls[1])>>
  /\ phase = "resolving"
  /\ links = <<>>
  /\ ftask = <<>>
  /\ queue = {}
  /\ submitted = {}
  /\ docs = <<>>
  /\ response = NoResponse
  /\ billed = 0
  /\ faults = 0
  /\ discovered = 0
  /\ failure = "none"
  /\ extractCalls = 0
  /\ numTokens = -1

NextTimeout ==
  \/ ResolversJoin
  \/ \E k \in 1..Len(ftask) : PriorityReturns(k)
  \/ \E k \in 1..Len(ftask) : AddReturns(k)
  \/ \E k \in 1..Len(ftask) : WaitReturns(k)

SpecTimeout == InitTimeout /\ [][NextTimeout]_vars

\* ---------------------------------------- token attribution on other lengths
\* The request for two direct URLs at the point where it awaits
\* generateOpenAICompletions, both documents fetched, for every pair of
\* markdown lengths (0 for a document without markdown) and the token
\* totals of LargeTokenTotals.
TokenLengths == {0, 1, 3, 7, 48, 100, 300}

LargeTokenTotals == {0, 40, 49, 90}

TokenUrls == <<U(1, "plain"), U(2, "plain")>>

InitTokens ==
  /\ req = [urls |-> TokenUrls, prompt |-> FALSE, allowExternalLinks |-> FALSE,
            timeout |-> 0]
  /\ \E lengths \in [1..Len(TokenUrls) -> TokenLengths] :
       /\ urlTraces = [i \in 1..Len(TokenUrls) |->
                         [InputTrace(TokenUrls[i]) EXCEPT
                            !.status = "scraped", !.scrapedAt = 1,
                            !.completedAt = 1,
                            !.rawContentLength = lengths[i],
                            !.tokensUsed = 0]]
       /\ ftask = [k \in 1..Len(TokenUrls) |->
                     [NewFetch(urlTraces, TokenUrls[k]) EXCEPT
                        !.pc = "doc", !.length = lengths[k]]]
       /\ docs = [k \in 1..Len(TokenUrls) |->
                    [sourceURL |-> TokenUrls[k], length |-> lengths[k]]]
  /\ rtask = [i \in 1..Len(TokenUrls) |-> InputTask(TokenUrls[i])]
  /\ phase = "extracting"
  /\ links = TokenUrls
  /\ queue = {}
  /\ submitted = 1..Len(TokenUrls)
  /\ response = NoResponse
  /\ billed = 0
  /\ faults = 0
  /\ discovered = 0
  /\ failure = "none"
  /\ extractCalls = 1
  /\ numTokens = -1

ExtractLarge == ExtractReturnsWith(LargeTokenTotals)

NextTokens == ExtractLarge

SpecTokens == InitTokens /\ [][NextTokens]_vars

\* =================================================================== claims
TracesOf(traces, u) == {i \in 1..Len(traces) : traces[i].url = u}

Responded == response.status # 0

\* C1: the resolved URL list handed to the fetch stage contains no URL more
\* than once, whatever the input URLs and the discovery results.
C1_LinksHaveNoDuplicates ==
  \A i, j \in 1..Len(links) : links[i] = links[j] => i = j

\* C2: when the response is sent, every URL of the resolved list and every
\* input URL has exactly one entry in urlTraces.
C2_ExactlyOneTracePerUrl ==
  Responded =>
    \A u \in Range(links) \cup Range(req.urls) :
      Cardinality(TracesOf(response.urlTrace, u)) = 1

\* C3: no trace of the ledger returned in a response has usedInCompletion =
\* true together with status = error.
C3_UsedImpliesNotError ==
  Responded =>
    \A i \in 1..Len(response.urlTrace) :
      ~(response.urlTrace[i].usedInCompletion = "true"
        /\ response.urlTrace[i].status = "error")

\* ---- the threshold cascade (checked under SpecCascade)
\* the resolver tasks whose ranking has run
Ranked == {i \in 1..Len(rtask) : rtask[i].pc = "done" /\ rtask[i].linksAndScores # <<>>}

\* the unblocked candidates scoring above a threshold
AcceptedAbove(scores, threshold) ==
  {scores[k].link : k \in {n \in 1..Len(scores) :
                             scores[n].score > threshold
                             /\ ~isUrlBlocked(scores[n].link)}}

HighestScore(scores) ==
  CHOOSE m \in {scores[k].score : k \in 1..Len(scores)} :
    \A k \in 1..Len(scores) : scores[k].score <= m

\* the candidates that share the highest score
HighestScoring(scores) ==
  {scores[k].link : k \in {n \in 1..Len(scores) :
                             scores[n].score = HighestScore(scores)}}

\* the first candidate, in the scorer's order, with the highest score
FirstHighest(scores) ==
  scores[CHOOSE k \in 1..Len(scores) :
           /\ scores[k].score = HighestScore(scores)
           /\ \A n \in 1..(k - 1) : scores[n].score < HighestScore(scores)].link

\* C4: the accepted set is every unblocked candidate scoring above 0.75; if
\* there is none, every unblocked candidate scoring above 0.5; if there is
\* none, the single highest-scoring candidate, dropped if it is blocked.
C4_CascadeResult ==
  \A i \in Ranked :
    LET scores == rtask[i].linksAndScores
        accepted == Range(rtask[i].filteredLinks)
    IN IF AcceptedAbove(scores, 75) # {} THEN accepted = AcceptedAbove(scores, 75)
       ELSE IF AcceptedAbove(scores, 50) # {} THEN accepted = AcceptedAbove(scores, 50)
       ELSE /\ Cardinality(accepted) <= 1
            /\ Len(rtask[i].filteredLinks) <= 1
            /\ \A u \in accepted : u \in HighestScoring(scores) /\ ~isUrlBlocked(u)
            /\ accepted = {} => \E u \in HighestScoring(scores) : isUrlBlocked(u)

\* C4 witness: the top-1 step ran on several candidates and picked the
\* highest-scoring one, which discovery had not listed first.
C4_Witness ==
  \E i \in Ranked :
    /\ Len(rtask[i].mappedLinks) = 3
    /\ \A k \in 1..3 : rtask[i].linksAndScores[k].score <= 50
    /\ rtask[i].linksAndScores[1].score > rtask[i].linksAndScores[2].score
    /\ rtask[i].filteredLinks = <<rtask[i].linksAndScores[1].link>>
    /\ rtask[i].filteredLinks # <<rtask[i].mappedLinks[1]>>

\* C5 as stated: whenever relevance filtering runs on a non-empty candidate
\* set, at least one candidate survives the cascade.
C5_AlwaysOneSurvives ==
  \A i \in Ranked : rtask[i].filteredLinks # <<>>

\* C5 amended: at least one candidate survives exactly when some unblocked
\* candidate scores above 0.5 or the first highest-scoring candidate is not
\* blocked; so one always survives when no candidate is blocked.
C5_SurvivesUnlessBlocked ==
  \A i \in Ranked :
    LET scores == rtask[i].linksAndScores
    IN rtask[i].filteredLinks # <<>>
         <=> \/ AcceptedAbove(scores, 50) # {}
             \/ ~isUrlBlocked(FirstHighest(scores))

\* C5 witness: a blocked candidate took part, nothing passed a threshold and
\* the top-1 step still kept a candidate.
C5_Witness ==
  \E i \in Ranked :
    /\ \E u \in Range(rtask[i].mappedLinks) : isUrlBlocked(u)
    /\ AcceptedAbove(rtask[i].linksAndScores, 50) = {}
    /\ Len(rtask[i].filteredLinks) = 1

\* ---- blocklist, isolation, release, guard (checked under Spec)
\* C6: a URL for which isUrlBlocked is true never has a trace with
\* usedInCompletion = true, in the ledger or in a response.
C6_BlockedNeverUsed ==
  /\ \A i \in 1..Len(urlTraces) :
       isUrlBlocked(urlTraces[i].url) => urlTraces[i].usedInCompletion # "true"
  /\ \A i \in 1..Len(response.urlTrace) :
       isUrlBlocked(response.urlTrace[i].url)
         => response.urlTrace[i].usedInCompletion # "true"

\* C6 witness: a blocked URL was ranked above the initial threshold next to
\* an accepted URL, and the response went out.
C6_Witness ==
  /\ response.status = 200
  /\ \E i \in 1..Len(urlTraces) :
       /\ isUrlBlocked(urlTraces[i].url)
       /\ urlTraces[i].relevanceScore > 75
  /\ \E i \in 1..Len(urlTraces) : urlTraces[i].usedInCompletion = "true"

\* the fetch tasks that ended in the catch of addScrapeJob / waitForJob
FailedFetches ==
  {k \in 1..Len(ftask) : ftask[k].error \in {"add failed", "job timed out"}}

FetchesSettled ==
  /\ ftask # <<>>
  /\ \A k \in 1..Len(ftask) : ftask[k].pc \in {"doc", "null"}
  /\ \A k \in 1..Len(ftask) : ftask[k].error # "remove failed"

\* the URLs of the fetch tasks that returned a document, in the order of links
RECURSIVE SucceededUrls(_)
SucceededUrls(tasks) ==
  IF tasks = <<>> THEN <<>>
  ELSE (IF Head(tasks).error = "none" THEN <<Head(tasks).url>> ELSE <<>>)
       \o SucceededUrls(Tail(tasks))

\* C7: when some fetches fail in addScrapeJob or waitForJob (and nothing else
\* fails), the request ends with 200 and success, the documents passed to
\* extraction are exactly those of the fetches that succeeded, and each
\* failed URL has a trace with status = error and the failure message.
C7_FetchFailuresIsolated ==
  FetchesSettled =>
    /\ \/ phase \in {"fetching", "extracting"}
       \/ phase = "thrown" /\ failure = "extraction failed"
       \/ phase = "responded" /\ response.status = 200 /\ response.success
    /\ phase # "fetching" =>
         [i \in 1..Len(docs) |-> docs[i].sourceURL] = SucceededUrls(ftask)
    /\ \A k \in FailedFetches :
         \E i \in 1..Len(urlTraces) :
           /\ urlTraces[i].url = ftask[k].url
           /\ urlTraces[i].status = "error"
           /\ urlTraces[i].error \in {"add failed", "job timed out"}
    /\ Responded =>
         \A k \in FailedFetches :
           \E i \in 1..Len(response.urlTrace) :
             /\ response.urlTrace[i].url = ftask[k].url
             /\ response.urlTrace[i].status = "error"
             /\ response.urlTrace[i].error \in {"add failed", "job timed out"}

\* C8: a job addScrapeJob accepted is out of the queue once its fetch task
\* has finished, whether waitForJob resolved or rejected.
C8_SubmittedJobsReleased ==
  \A k \in 1..Len(ftask) :
    (k \in submitted /\ ftask[k].pc \in {"doc", "null"}) => k \notin queue

\* C9: a failure while resolving one input URL (discovery, rephrase, block)
\* is recorded on that URL's trace, empties that URL's result only and does
\* not abort the request.
C9_ResolutionFailuresIsolated ==
  \A i \in 1..Len(rtask) :
    rtask[i].error # "none" =>
      /\ rtask[i].pc = "done"
      /\ rtask[i].result = <<>>
      /\ failure # "rephrase failed"
      /\ urlTraces[i].status = "error"
      /\ urlTraces[i].error # "none"
      /\ urlTraces[i].usedInCompletion = "false"

\* C10: when the resolved URL list is empty after all resolver tasks have
\* completed, the response is 400 with success = false and the ledger, no
\* fetch job is submitted, extraction is never called, nothing is billed.
C10_NoLinksGuard ==
  (phase \notin {"start", "resolving"} /\ failure # "rephrase failed"
   /\ links = <<>>) =>
    /\ phase = "responded"
    /\ response.status = 400
    /\ ~response.success
    /\ response.urlTrace = urlTraces
    /\ ftask = <<>>
    /\ submitted = {}
    /\ extractCalls = 0
    /\ billed = 0

\* C10 witness: two inputs, one blocked and one whose discovery failed, end
\* in the 400 response with both traces.
C10_Witness ==
  /\ response.status = 400
  /\ Len(response.urlTrace) = 2
  /\ \E i \in 1..2 : response.urlTrace[i].error = "URL is blocked"
  /\ \E i \in 1..2 : response.urlTrace[i].error = "discovery failed"

\* The request has ended in failure: extractController threw, or it sent a
\* response with success = false.
EndedInFailure ==
  \/ phase = "thrown"
  \/ phase = "responded" /\ ~response.success

\* C11: every way the request can end in failure after validation (no
\* resolved URL, a failure in the resolution stage, a rejection of the fetch
\* stage, a failure of the extraction collaborator) produces a response that
\* carries the trace ledger accumulated so far.
C11_FailureCarriesLedger ==
  EndedInFailure =>
    /\ Responded
    /\ Len(response.urlTrace) = Len(urlTraces)
    /\ \A n \in 1..Len(urlTraces) : response.urlTrace[n].url = urlTraces[n].url

\* The fetch tasks that rejected, and whether every fetch task has settled.
RejectedFetches == {k \in 1..Len(ftask) : ftask[k].pc = "rejected"}

AllFetchesSettled ==
  /\ ftask # <<>>
  /\ \A k \in 1..Len(ftask) : ftask[k].pc \in {"doc", "null", "rejected"}

\* The request went on from the join to the extraction call.
ProceededToExtraction == extractCalls = 1

\* The request ended at the join over the fetch tasks.
StoppedAtJoin ==
  \/ phase = "thrown" /\ failure = "invalid status code"
  \/ phase = "responded" /\ response.status \notin {200, 400}

\* C12: when the join over the fetch tasks rejects with a structured upstream
\* error carrying a status and a message, the response has that status and
\* that message and the request stops; when it rejects with anything else,
\* or does not reject, the request proceeds to extraction with whatever
\* documents succeeded, even zero.
C12_JoinOutcome ==
  /\ RejectedFetches # {} =>
       \E k \in RejectedFetches :
         LET e == ftask[k].rejection
         IN IF e.status # 0
            THEN /\ phase = "responded"
                 /\ response.status = e.status
                 /\ response.error = e.message
                 /\ ~ProceededToExtraction
            ELSE ~StoppedAtJoin
  /\ RejectedFetches = {} => ~StoppedAtJoin
  /\ (AllFetchesSettled /\ \A k \in RejectedFetches : ftask[k].rejection.status = 0)
       => (phase = "fetching" \/ ProceededToExtraction)

\* ---- token attribution (checked under SpecTokens)
RECURSIVE SumTokensUsed(_)
SumTokensUsed(traces) ==
  IF traces = <<>> THEN 0
  ELSE (IF Head(traces).tokensUsed = -1 THEN 0 ELSE Head(traces).tokensUsed)
       + SumTokensUsed(Tail(traces))

\* floor(T * rawLength / sum of the raw lengths), in exact arithmetic
ExactShare(T, rawLength, sum) == (T * rawLength) \div sum

\* C13: after extraction reports a token total T > 0, each fetched document i
\* with a sourceURL has its trace's tokensUsed set to
\* floor(T * rawLength_i / sum of all documents' raw lengths), and the
\* tokensUsed values over all traces sum to at most T.
C13_TokenAttribution ==
  (response.status = 200 /\ numTokens > 0) =>
    /\ \A i \in 1..Len(docs) :
         LET n == FindTrace(response.urlTrace, docs[i].sourceURL)
         IN (n # 0 /\ SumLengths(docs) > 0) =>
              response.urlTrace[n].tokensUsed
                = ExactShare(numTokens, docs[i].length, SumLengths(docs))
    /\ \A n \in 1..Len(response.urlTrace) :
         response.urlTrace[n].tokensUsed # NaN
    /\ SumTokensUsed(response.urlTrace) <= numTokens

\* ---- the caps (checked under SpecCaps)
\* C14: for each input URL resolved through discovery, at most 100 candidates
\* are passed to the relevance scorer whatever the number of discovered
\* links, and when ranking runs at most 10 URLs are returned for that input.
C14_Caps ==
  \A i \in 1..Len(rtask) :
    /\ rtask[i].pc = "rank" => Len(rtask[i].mappedLinks) <= MAX_EXTRACT_LIMIT
    /\ (rtask[i].pc = "done" /\ req.prompt) =>
         /\ Len(rtask[i].linksAndScores) <= MAX_EXTRACT_LIMIT
         /\ Len(rtask[i].result) <= MAX_RANKING_LIMIT

\* C14 witness: discovery returned more than 100 links, 100 were scored,
\* more than 10 were accepted and 10 are returned.
C14_Witness ==
  /\ discovered > MAX_EXTRACT_LIMIT
  /\ rtask[1].pc = "done"
  /\ Len(rtask[1].linksAndScores) = MAX_EXTRACT_LIMIT
  /\ Len(rtask[1].filteredLinks) > MAX_RANKING_LIMIT
  /\ Len(rtask[1].result) = MAX_RANKING_LIMIT

\* ---- the fetch timeout (checked under SpecTimeout)
\* The fetch tasks that have called waitForJob(jobId, timeout).
Waiting == {k \in 1..Len(ftask) : ftask[k].pc \in {"wait", "remove"}}

\* floor(t * 0.7) in exact arithmetic
ExactScaled(t) == (7 * t) \div 10

\* C15: the timeout passed to waitForJob equals floor(requestTimeout * 0.7)
\* when that value is non-zero, and equals 30000 when the request timeout is
\* missing or zero (or the computed value is otherwise 0).
C15_TimeoutAsStated ==
  \A k \in Waiting :
    ftask[k].timeout = IF req.timeout = 0 \/ ExactScaled(req.timeout) = 0
                       THEN 30000
                       ELSE ExactScaled(req.timeout)

\* C15 as the code has it: the request timeout defaults to 40000 when it is
\* missing or zero, so the timeout passed to waitForJob is then 28000; the
\* timeout is 30000 only when floor(t * 0.7) is 0 for the request timeout t;
\* otherwise it is floor(t * 0.7), which the double product makes one less
\* than the exact value for some t that are multiples of 10.
C15_TimeoutScaled ==
  \A k \in Waiting :
    LET t == IF req.timeout = 0 THEN 40000 ELSE req.timeout
    IN /\ req.timeout = 0 => ftask[k].timeout = 28000
       /\ ExactScaled(t) = 0 => ftask[k].timeout = 30000
       /\ ExactScaled(t) > 0 =>
            /\ ftask[k].timeout \in {ExactScaled(t) - 1, ExactScaled(t)}
            /\ (7 * t) % 10 # 0 => ftask[k].timeout = ExactScaled(t)

\* C15 witness: a request without a timeout has called waitForJob with 28000.
C15_Witness ==
  /\ req.timeout = 0
  /\ \E k \in Waiting : ftask[k].timeout = 28000

\* ---- the ledger at the response (checked under Spec)
\* C16: in a 200 response a trace has usedInCompletion = true exactly when a
\* document fetched for that trace's URL was part of the content given to
\* the extraction call, whatever resolved the URL and whatever its fetch did.
C16_UsedIffInContent ==
  response.status = 200 =>
    \A n \in 1..Len(response.urlTrace) :
      (response.urlTrace[n].usedInCompletion = "true")
        <=> (\E i \in 1..Len(docs) :
               docs[i].sourceURL = response.urlTrace[n].url)

\* performRanking was called by resolver task i.
RankingInvoked(i) ==
  \/ rtask[i].pc = "rank"
  \/ rtask[i].linksAndScores # <<>>
  \/ rtask[i].error = "ranking failed"

C18_TimingsWrittenOnce ==
  \A n \in 1..Len(urlTraces) :
    /\ urlTraces[n].discoveredAt <= 1
    /\ urlTraces[n].scrapedAt <= 1
    /\ urlTraces[n].completedAt <= 1

\* The status changes a trace may take.
AllowedStatusChanges ==
  {<<"mapped", "scraped">>, <<"mapped", "error">>, <<"scraped", "error">>}

\* C19: a trace's status only ever changes from mapped to scraped, from
\* mapped to error, or from scraped to error; it never returns to mapped,
\* and a trace at error is never set back to scraped, also when another
\* input's discovery resolves the same URL.
C19_StatusTransitions ==
  [][\A n \in 1..Len(urlTraces) :
       urlTraces'[n].status # urlTraces[n].status =>
         <<urlTraces[n].status, urlTraces'[n].status>>
           \in AllowedStatusChanges]_vars

\* C20: no URL for which isUrlBlocked is true is ever submitted to
\* addScrapeJob, whichever branch resolved it.
C20_BlockedNeverSubmitted ==
  \A k \in submitted : ~isUrlBlocked(ftask[k].url)

====
